---- MODULE Spec2Model ----
(***************************************************************************)
(* Model of the trivia game generator (generate-game script): the pure     *)
(* difficulty functions, the eligibility filter, the per-round category    *)
(* selection, the date allocation and the two persisting writes.           *)
(*                                                                         *)
(* Texts are TLA+ strings; JavaScript's string operations (template        *)
(* concatenation, includes, toLowerCase, trim, the quote-stripping         *)
(* replace) are computed on them character by character.                   *)
(* Difficulty scores are exact rationals <<num, den>>.                     *)
(***************************************************************************)
EXTENDS Integers, Sequences, FiniteSets, TLC

(***************************************************************************)
(* Bounds of the model.                                                    *)
(***************************************************************************)
\* number of generateGame invocations in one behaviour
MaxRuns == 2
\* number of distinct seeds of the random source a run may start from
NumSeeds == 2

(***************************************************************************)
(* Generic helpers.                                                        *)
(***************************************************************************)
Range(s) == { s[i] : i \in 1..Len(s) }

RECURSIVE SumSeq(_)
SumSeq(s) == IF s = <<>> THEN 0 ELSE Head(s) + SumSeq(Tail(s))

RECURSIVE Flatten(_)
Flatten(ss) == IF ss = <<>> THEN <<>> ELSE Head(ss) \o Flatten(Tail(ss))

Min(a, b) == IF a < b THEN a ELSE b

(***************************************************************************)
(* String operations of the JavaScript runtime, on TLA+ strings.           *)
(***************************************************************************)
\* String.prototype.includes
Includes(s, t) ==
  \E i \in 1..(Len(s) - Len(t) + 1) : SubSeq(s, i, i + Len(t) - 1) = t

UpperToLower ==
  [c \in {"A", "B", "C", "D", "E", "F", "G", "H", "I", "J", "K", "L", "M",
          "N", "O", "P", "Q", "R", "S", "T", "U", "V", "W", "X", "Y", "Z"} |->
     CASE c = "A" -> "a" [] c = "B" -> "b" [] c = "C" -> "c" [] c = "D" -> "d"
       [] c = "E" -> "e" [] c = "F" -> "f" [] c = "G" -> "g" [] c = "H" -> "h"
       [] c = "I" -> "i" [] c = "J" -> "j" [] c = "K" -> "k" [] c = "L" -> "l"
       [] c = "M" -> "m" [] c = "N" -> "n" [] c = "O" -> "o" [] c = "P" -> "p"
       [] c = "Q" -> "q" [] c = "R" -> "r" [] c = "S" -> "s" [] c = "T" -> "t"
       [] c = "U" -> "u" [] c = "V" -> "v" [] c = "W" -> "w" [] c = "X" -> "x"
       [] c = "Y" -> "y" [] OTHER -> "z"]

LowerChar(c) == IF c \in DOMAIN UpperToLower THEN UpperToLower[c] ELSE c

\* String.prototype.toLowerCase, character by character (the string is split
\* in halves to keep the evaluation shallow)
RECURSIVE ToLowerCase(_)
ToLowerCase(s) ==
  IF Len(s) = 0 THEN s
  ELSE IF Len(s) = 1 THEN LowerChar(s)
  ELSE ToLowerCase(SubSeq(s, 1, Len(s) \div 2))
         \o ToLowerCase(SubSeq(s, Len(s) \div 2 + 1, Len(s)))

(***************************************************************************)
(* Clue records of the archive and their identifiers.                      *)
(***************************************************************************)
JEOPARDY == "Jeopardy"
DOUBLE_JEOPARDY == "Double Jeopardy"
FINAL_JEOPARDY == "Final Jeopardy"

Clue(c, a, cat, v, r) ==
  [clue |-> c, answer |-> a, category |-> cat, value |-> v, round |-> r]

\* `${q.clue}|${q.answer}`
QuestionId(q) == q.clue \o "|" \o q.answer

(***************************************************************************)
(* DifficultyScorer.  A score is the exact rational <<num, ScoreDen>>; the  *)
(* average of a round is <<sum, ScoreDen * n>>.                            *)
(***************************************************************************)
ScoreDen == 1600

RatLt(r, k) == r[1] < k * r[2]

\* Math.max(0, Math.min(100, score)) on a rational with positive denominator
Clamp(r) ==
  IF r[1] < 0 THEN <<0, r[2]>>
  ELSE IF r[1] > 100 * r[2] THEN <<100 * r[2], r[2]>>
  ELSE r

calculateDifficulty(question) ==
  LET score ==
        IF question.round = JEOPARDY
          \* (value - 200) / 800 * 20
          THEN <<(question.value - 200) * 40, ScoreDen>>
        ELSE IF question.round = DOUBLE_JEOPARDY
          \* 20 + ((value - 400) / 1600 * 40)
          THEN <<20 * ScoreDen + (question.value - 400) * 40, ScoreDen>>
        ELSE IF question.round = FINAL_JEOPARDY
          THEN <<80 * ScoreDen, ScoreDen>>
        ELSE <<0, ScoreDen>>
  IN  Clamp(score)

getDifficultyLevel(score) ==
  IF RatLt(score, 10) THEN "easy"
  ELSE IF RatLt(score, 30) THEN "medium"
  ELSE IF RatLt(score, 50) THEN "hard"
  ELSE "expert"

(***************************************************************************)
(* EligibilityFilter.  `llm` is the classifier configuration of the run:   *)
(* "none" when OPENAI_API_KEY is not set (openaiClient = null), otherwise  *)
(* the behaviour of the external service during the run:                   *)
(*   "allow"  answers {shouldDisqualify: false} and rewrites on request,   *)
(*   "strict" also disqualifies wordplay categories and asks for rewrites, *)
(*   "down"   every call throws (network error, timeout, bad JSON text),   *)
(*   "null"   the completion's content is the JSON value null,             *)
(*   "blank"  answers {shouldDisqualify: false}; the rewriter's content is *)
(*            a pair of quotes between spaces,                             *)
(*   "hang"   the service accepts the request and never answers; the       *)
(*            client is created without a timeout (lines 12-14).           *)
(***************************************************************************)
LLMModes == {"none", "allow", "strict", "down", "null", "blank", "hang"}

Response(d, r) == [kind |-> "object", shouldDisqualify |-> d, reason |-> r]
NullResponse == [kind |-> "null", shouldDisqualify |-> FALSE, reason |-> ""]

\* mutation: the heuristic compares the category as it is spelled
LocalHeuristicCaseSensitive(question) ==
  IF \/ Includes(question.category, "anagram")
     \/ Includes(question.category, "scramble")
     \/ Includes(question.category, "rearrange")
    THEN Response(TRUE, "Anagram category")
    ELSE Response(FALSE, "")

\* the local heuristic, used when there is no client
LocalHeuristic(question) ==
  LET category == ToLowerCase(question.category)
      clue == ToLowerCase(question.clue)
      categoryThemes == {"i'm in", "without my", "can't read", "my wet hair"}
  IN  IF \/ Includes(category, "anagram")
         \/ Includes(category, "scramble")
         \/ Includes(category, "rearrange")
        THEN Response(TRUE, "Anagram category")
      ELSE IF \E theme \in categoryThemes : Includes(clue, theme)
        THEN Response(FALSE, "May need rewriting")
      ELSE Response(FALSE, "")

\* what JSON.parse(response.choices[0].message.content) yields, per service
\* behaviour; "throw" stands for an exception inside the try block
ClassifierReply(question, llm) ==
  CASE llm = "allow"  -> Response(FALSE, "Suitable for pub trivia")
    [] llm = "blank"  -> Response(FALSE, "Suitable for pub trivia")
    [] llm = "strict" ->
         IF Includes(ToLowerCase(question.category), "wordplay")
           THEN Response(TRUE, "Relies on wordplay")
         ELSE IF Includes(ToLowerCase(question.clue), "this category")
           THEN Response(FALSE, "Category themed, needs rewriting")
         ELSE Response(FALSE, "Suitable for pub trivia")
    [] llm = "null"   -> NullResponse
    [] OTHER          -> [kind |-> "throw", shouldDisqualify |-> FALSE, reason |-> ""]

shouldDisqualifyQuestion(question, llm) ==
  IF llm = "none" THEN LocalHeuristic(question)
  ELSE LET result == ClassifierReply(question, llm)
       IN  IF result.kind = "throw" THEN Response(FALSE, "") ELSE result

IsSpace(c) == c \in {" ", "\t", "\n"}
IsQuote(c) == c \in {"\"", "'"}

\* String.prototype.trim
RECURSIVE Trim(_)
Trim(s) ==
  IF Len(s) = 0 THEN s
  ELSE IF IsSpace(SubSeq(s, 1, 1)) THEN Trim(SubSeq(s, 2, Len(s)))
  ELSE IF IsSpace(SubSeq(s, Len(s), Len(s))) THEN Trim(SubSeq(s, 1, Len(s) - 1))
  ELSE s

\* rewritten.replace(/^["']|["']$/g, '')
StripQuotes(s) ==
  LET a == IF Len(s) > 0 /\ IsQuote(SubSeq(s, 1, 1)) THEN SubSeq(s, 2, Len(s)) ELSE s
  IN  IF Len(a) > 0 /\ IsQuote(SubSeq(a, Len(a), Len(a)))
        THEN SubSeq(a, 1, Len(a) - 1)
        ELSE a

\* response.choices[0].message.content of the rewriting call
RewriterReply(question, llm) ==
  IF llm = "strict" THEN " \"Plain: " \o question.clue \o "\" "
  ELSE IF llm = "blank" THEN " \"\" "
  ELSE "Plain: " \o question.clue

rewriteQuestion(question, llm) ==
  IF llm = "none" THEN question.clue
  ELSE IF llm = "down" THEN question.clue
  ELSE StripQuotes(Trim(RewriterReply(question, llm)))

\* the condition of lines 204-207 / 243-246
NeedsRewriting(question, disqualifyResult) ==
  \/ Includes(disqualifyResult.reason, "rewriting")
  \/ Includes(ToLowerCase(question.category), "i'm in")
  \/ Includes(ToLowerCase(question.clue), "can't read")
  \/ Includes(ToLowerCase(question.clue), "without my")

\* mutation: a rewritten clue is rebuilt from the rewriter's request fields
FilteredFromRequest(question, disqualifyResult, llm) ==
  LET clue == IF NeedsRewriting(question, disqualifyResult)
                THEN rewriteQuestion(question, llm)
                ELSE question.clue
  IN  [clue |-> clue, answer |-> question.answer, category |-> question.category,
       value |-> IF question.clue # clue THEN 0 ELSE question.value,
       round |-> question.round,
       originalClue |-> IF question.clue # clue THEN <<question.clue>> ELSE <<>>]

\* the record pushed onto filteredQuestions / filteredFinals; originalClue is
\* <<>> for undefined and <<text>> otherwise
Filtered(question, disqualifyResult, llm) ==
  LET clue == IF NeedsRewriting(question, disqualifyResult)
                THEN rewriteQuestion(question, llm)
                ELSE question.clue
  IN  [clue |-> clue, answer |-> question.answer, category |-> question.category,
       value |-> question.value, round |-> question.round,
       originalClue |-> IF question.clue # clue THEN <<question.clue>> ELSE <<>>]

\* one filtering loop (lines 194-226 and 239-260) over `questions`:
\* [threw |-> a TypeError left the loop, list |-> the filtered questions]
FilterLoop(questions, llm) ==
  LET results == [i \in 1..Len(questions) |->
                    shouldDisqualifyQuestion(questions[i], llm)]
  IN  IF \E i \in 1..Len(questions) : results[i].kind = "null"
        THEN [threw |-> TRUE, list |-> <<>>]
        ELSE LET kept == SelectSeq([i \in 1..Len(questions) |-> i],
                           LAMBDA i : ~results[i].shouldDisqualify)
             IN  [threw |-> FALSE,
                  list |-> [k \in 1..Len(kept) |->
                              Filtered(questions[kept[k]], results[kept[k]], llm)]]

(***************************************************************************)
(* The random source.  Math.random() is a seeded pseudo-random generator;  *)
(* the model keeps its state k in 0..255, reads the draw as k/256 and      *)
(* steps it by a linear congruence.  A run starts from one of NumSeeds     *)
(* seeds.                                                                  *)
(***************************************************************************)
SeedState(seed) == (seed * 97 + 11) % 256
NextRandom(k) == (k * 141 + 3) % 256
\* Math.floor(Math.random() * n)
RandomIndex(k, n) == (k * n) \div 256

Swap(s, i, j) == [s EXCEPT ![i] = s[j], ![j] = s[i]]

\* the Fisher-Yates loops of lines 295-298 and 410-413, on 1-based sequences:
\* for (i = length - 1; i > 0; i--) swap(i, floor(random() * (i + 1)))
RECURSIVE ShuffleFrom(_, _, _)
ShuffleFrom(s, i, k) ==
  IF i <= 1 THEN [seq |-> s, rng |-> k]
  ELSE ShuffleFrom(Swap(s, i, RandomIndex(k, i) + 1), i - 1, NextRandom(k))

Shuffle(s, k) == ShuffleFrom(s, Len(s), k)

(***************************************************************************)
(* CategorySelector.                                                       *)
(***************************************************************************)
\* mutation: the round loop stops one round early
numRoundsShort == 8 - 1

numRounds == 8
questionsPerRound == 3
minAvailable == 24
\* mutation: the final-clue check accepts an empty list
minFinalsNone == 1 - 1

minFinals == 1

TargetDifficulty(round) ==
  IF round < 2 THEN "easy"
  ELSE IF round < 4 THEN "medium"
  ELSE IF round < 6 THEN "hard"
  ELSE "expert"

\* fallbackDifficulties of the category search (lines 339-343)
SearchFallbacks(targetDifficulty) ==
  CASE targetDifficulty = "expert" -> <<"hard", "expert">>
    [] targetDifficulty = "hard"   -> <<"medium", "hard">>
    [] targetDifficulty = "medium" -> <<"easy", "medium">>
    [] OTHER                       -> <<"easy">>

\* mutation: the pick uses the order of the category search (fallback first)
PickFallbacksReversed(targetDifficulty) == SearchFallbacks(targetDifficulty)

\* mutation: the pick goes through all four tiers, easiest first
PickFallbacksAll(targetDifficulty) == <<"easy", "medium", "hard", "expert">>

\* fallbackDifficulties of the pick (lines 394-398)
PickFallbacks(targetDifficulty) ==
  CASE targetDifficulty = "expert" -> <<"expert", "hard">>
    [] targetDifficulty = "hard"   -> <<"hard", "medium">>
    [] targetDifficulty = "medium" -> <<"medium", "easy">>
    [] OTHER                       -> <<"easy">>

\* !selectedQuestions.some(sq => sq.clue === q.clue)
NotSelected(q, selectedQuestions) ==
  ~\E i \in 1..Len(selectedQuestions) : selectedQuestions[i].clue = q.clue

\* questionsWithDifficulty (lines 273-277)
WithDifficulty(q) ==
  [clue |-> q.clue, answer |-> q.answer, category |-> q.category,
   value |-> q.value, round |-> q.round, originalClue |-> q.originalClue,
   difficultyScore |-> calculateDifficulty(q),
   difficultyLevel |-> getDifficultyLevel(calculateDifficulty(q))]

\* questionsByCategory[category][difficulty], filtered against the selection
Remaining(questions, category, difficulty, selectedQuestions) ==
  SelectSeq(questions,
            LAMBDA q : /\ q.category = category
                       /\ q.difficultyLevel = difficulty
                       /\ NotSelected(q, selectedQuestions))

\* Object.keys(questionsByCategory): categories in order of first appearance
CategoryKeys(questions) ==
  LET firsts == SelectSeq([i \in 1..Len(questions) |-> i],
                  LAMBDA i : \A j \in 1..(i - 1) :
                               questions[j].category # questions[i].category)
  IN  [k \in 1..Len(firsts) |-> questions[firsts[k]].category]

\* lines 350-358: add fallback tiers while fewer than 3 are available
RECURSIVE AddFallbacks(_, _, _, _, _, _)
AddFallbacks(avail, fallbacks, target, questions, category, selected) ==
  IF fallbacks = <<>> \/ Len(avail) >= questionsPerRound THEN avail
  ELSE IF Head(fallbacks) = target
    THEN AddFallbacks(avail, Tail(fallbacks), target, questions, category, selected)
  ELSE AddFallbacks(avail \o Remaining(questions, category, Head(fallbacks), selected),
                    Tail(fallbacks), target, questions, category, selected)

\* availableInCategory of lines 345-358
AvailableInCategory(questions, category, target, selected) ==
  AddFallbacks(Remaining(questions, category, target, selected),
               SearchFallbacks(target), target, questions, category, selected)

\* allInCategory of lines 371-376
AllInCategory(questions, category, selected) ==
  Flatten([i \in 1..4 |->
             Remaining(questions, category,
                       <<"easy", "medium", "hard", "expert">>[i], selected)])

\* mutation: the scan keeps the last matching category instead of stopping
LastMatch(keys, ok) ==
  IF \E i \in 1..Len(keys) : keys[i] \in ok
    THEN <<keys[CHOOSE i \in 1..Len(keys) :
                  /\ keys[i] \in ok
                  /\ \A j \in (i + 1)..Len(keys) : keys[j] \notin ok]>>
    ELSE <<>>

\* first element of `keys` that is in the set `ok`, <<>> when there is none
FirstMatch(keys, ok) ==
  IF \E i \in 1..Len(keys) : keys[i] \in ok
    THEN <<keys[CHOOSE i \in 1..Len(keys) :
                  /\ keys[i] \in ok
                  /\ \A j \in 1..(i - 1) : keys[j] \notin ok]>>
    ELSE <<>>

\* mutation: the search forgets which categories the game has used
SelectCategoryReuse(questions, categoryKeys, usedCategories, target, selected) ==
  LET byTier == FirstMatch(categoryKeys,
        { c \in Range(categoryKeys) :
            Len(AvailableInCategory(questions, c, target, selected))
              >= questionsPerRound })
  IN  IF byTier # <<>> THEN byTier
      ELSE FirstMatch(categoryKeys,
        { c \in Range(categoryKeys) :
            Len(AllInCategory(questions, c, selected)) >= questionsPerRound })

\* selectedCategory after lines 331-383; <<>> stands for null
SelectCategory(questions, categoryKeys, usedCategories, target, selected) ==
  LET unused == Range(categoryKeys) \ usedCategories
      byTier == FirstMatch(categoryKeys,
        { c \in unused :
            Len(AvailableInCategory(questions, c, target, selected))
              >= questionsPerRound })
  IN  IF byTier # <<>> THEN byTier
      ELSE FirstMatch(categoryKeys,
        { c \in unused :
            Len(AllInCategory(questions, c, selected)) >= questionsPerRound })

\* questionsToChooseFrom of lines 400-407
RECURSIVE ChooseFrom(_, _, _, _, _)
ChooseFrom(acc, fallbacks, questions, category, selected) ==
  IF fallbacks = <<>> \/ Len(acc) >= questionsPerRound THEN acc
  ELSE ChooseFrom(acc \o Remaining(questions, category, Head(fallbacks), selected),
                  Tail(fallbacks), questions, category, selected)

\* mutation: the pool takes every tier of the pick list, whatever its size
QuestionsToChooseFromAll(questions, category, target, selected) ==
  Flatten([i \in 1..Len(PickFallbacks(target)) |->
             Remaining(questions, category, PickFallbacks(target)[i], selected)])

QuestionsToChooseFrom(questions, category, target, selected) ==
  ChooseFrom(<<>>, PickFallbacks(target), questions, category, selected)

(***************************************************************************)
(* DateAllocator.  A date is its day number; a Game file game-<date>.json  *)
(* is the entry of `games` at that date.                                   *)
(***************************************************************************)
\* targetDate = null
NoDate == -1
\* new Date(): the day the runs happen
Today == 0
ScanDays == 365

GameId(date) == <<"game-", date>>

\* The clock of the process.  `now` is the instant of new Date(), in hours
\* since 00:00 UTC of Today.  Local wall-clock time is `offset` hours ahead of
\* UTC up to the wall-clock hour `change` (counted from 00:00 of Today) and
\* `offsetAfter` hours ahead from then on: the second clock reads 01:00 in a
\* zone that leaves daylight-saving time at 03:00 of the same local day.
Clocks ==
  { [zone |-> "UTC", now |-> 12, offset |-> 0, change |-> 0, offsetAfter |-> 0],
    [zone |-> "Europe/Berlin", now |-> 23, offset |-> 2, change |-> 27,
     offsetAfter |-> 1] }

\* checkDate after i executions of checkDate.setDate(checkDate.getDate() + 1):
\* the same wall-clock time i local days later, as an instant
CheckDate(clock, i) ==
  LET local == clock.now + clock.offset + 24 * i
  IN  local - (IF local < clock.change THEN clock.offset ELSE clock.offsetAfter)

\* toISOString().split('T')[0]: the UTC date of an instant
DateStr(instant) == instant \div 24

\* findNextAvailableDate() of lines 459-478, called without a target date:
\* the first of the ScanDays dates the loop visits that has no game file, and
\* today's date when all of them have one
findNextAvailableDate(existing, clock) ==
  LET free == { i \in 0..(ScanDays - 1) : DateStr(CheckDate(clock, i)) \notin existing }
  IN  IF free = {} THEN DateStr(clock.now)
      ELSE DateStr(CheckDate(clock, CHOOSE i \in free : \A j \in free : i <= j))

(***************************************************************************)
(* RoundAssembler (lines 520-552).                                         *)
(***************************************************************************)
Projected(q) == [clue |-> q.clue, answer |-> q.answer, category |-> q.category]

AvgDifficulty(roundQuestions) ==
  <<SumSeq([i \in 1..Len(roundQuestions) |-> calculateDifficulty(roundQuestions[i])[1]]),
    ScoreDen * Len(roundQuestions)>>

\* mutation: the round is labelled with the tier it targets
BuildRoundTarget(questions, i) ==
  LET roundQuestions ==
        SubSeq(questions, i * questionsPerRound + 1,
               Min((i + 1) * questionsPerRound, Len(questions)))
  IN  [roundNumber |-> i + 1,
       difficulty |-> TargetDifficulty(i),
       questions |-> [k \in 1..Len(roundQuestions) |-> Projected(roundQuestions[k])]]

BuildRound(questions, i) ==
  LET roundQuestions ==
        SubSeq(questions, i * questionsPerRound + 1,
               Min((i + 1) * questionsPerRound, Len(questions)))
  IN  [roundNumber |-> i + 1,
       difficulty |-> getDifficultyLevel(AvgDifficulty(roundQuestions)),
       questions |-> [k \in 1..Len(roundQuestions) |-> Projected(roundQuestions[k])]]

BuildGame(gameId, date, questions, finalQuestion) ==
  [id |-> gameId,
   date |-> date,
   rounds |-> [i \in 1..8 |-> BuildRound(questions, i - 1)],
   finalTrivia |-> [category |-> finalQuestion.category,
                    question |-> finalQuestion.clue,
                    answer |-> finalQuestion.answer]]

(***************************************************************************)
(* Archives the runs work on.                                              *)
(***************************************************************************)
EasyA == <<200, JEOPARDY>>
EasyB == <<400, JEOPARDY>>
MediumA == <<600, JEOPARDY>>
MediumB == <<1000, JEOPARDY>>
MediumC == <<400, DOUBLE_JEOPARDY>>
HardA == <<800, DOUBLE_JEOPARDY>>
HardB == <<1200, DOUBLE_JEOPARDY>>
ExpertA == <<1600, DOUBLE_JEOPARDY>>
ExpertB == <<2000, DOUBLE_JEOPARDY>>

\* the clues of one category: clue texts `lead`<tag>-q<i>, answers <tag>-a<i>
MkCategory(category, tag, lead, specs) ==
  [i \in 1..Len(specs) |->
     Clue(lead \o tag \o "-q" \o ToString(i), tag \o "-a" \o ToString(i),
          category, specs[i][1], specs[i][2])]

MkFinal(category, tag) ==
  Clue(tag \o "-q", tag \o "-a", category, 0, FINAL_JEOPARDY)

GridSpecs == <<EasyA, EasyB, EasyA, MediumA, MediumB, MediumC,
               HardA, HardB, HardA, ExpertA, ExpertB, ExpertA>>
GridNames == <<"Rivers", "Capitals", "Opera", "Physics",
               "Poets", "Islands", "Movies", "Inventors">>

\* 8 categories of 3 easy, 3 medium, 3 hard and 3 expert clues: 96 clues
ArchiveGrid96 ==
  Flatten([k \in 1..8 |-> MkCategory(GridNames[k], "g" \o ToString(k), "", GridSpecs)])

\* the same with two final clues
ArchiveGrid ==
  ArchiveGrid96 \o <<MkFinal("Explorers", "gf1"), MkFinal("World Leaders", "gf2")>>

\* 7 plain categories and an anagram category of 3 easy clues each, one final
ArchiveSmall ==
  Flatten([k \in 1..7 |->
             MkCategory(GridNames[k], "s" \o ToString(k), "", <<EasyA, EasyB, EasyA>>)])
  \o MkCategory("ANAGRAMS", "s8", "", <<EasyA, EasyB, EasyA>>)
  \o <<MkFinal("Explorers", "sf1")>>

\* 4 categories of 3 easy and 3 hard clues, a category of 3 easy clues, one final
ArchiveFewCategories ==
  Flatten([k \in 1..4 |->
             MkCategory(GridNames[k], "w" \o ToString(k), "",
                        <<EasyA, EasyB, EasyA, HardA, HardB, HardA>>)])
  \o MkCategory(GridNames[5], "w5", "", <<EasyA, EasyB, EasyA>>)
  \o <<MkFinal("Explorers", "wf1")>>

\* 2 categories of 3 easy clues, one final
ArchiveTiny ==
  MkCategory(GridNames[1], "y1", "", <<EasyA, EasyB, EasyA>>)
  \o MkCategory(GridNames[2], "y2", "", <<EasyA, EasyB, EasyA>>)
  \o <<MkFinal("Explorers", "yf1")>>

ThemedNames == <<"Rivers", "Capitals", "Opera", "Physics", "Poets", "Islands",
                 "Beauty Aisle", "I'm in Sephora", "Wordplay Time">>
ThemedLeads == <<"", "", "", "", "", "", "Can't read the label: ", "", "">>

\* 9 categories of 3 easy and 3 hard clues, among them a category whose name
\* and a category whose clues carry the themed phrases, and a wordplay
\* category; one final clue, of the themed category
ArchiveThemed ==
  Flatten([k \in 1..9 |->
             MkCategory(ThemedNames[k], "t" \o ToString(k), ThemedLeads[k],
                        <<EasyA, EasyB, EasyA, HardA, HardB, HardA>>)])
  \o <<MkFinal("I'm in Sephora", "tf1")>>

\* a Double Jeopardy clue scraped without a dollar value
NoValue == <<0, DOUBLE_JEOPARDY>>

UnevenNames == <<"Rivers", "Capitals", "Opera", "Physics", "Poets", "Islands",
                 "Movies", "Inventors", "Planets", "Famous ANAGRAMS">>
UnevenSpecs == <<<<EasyA, EasyB, EasyA>>, <<ExpertA, ExpertB, ExpertA>>,
                 <<HardA, HardB, HardA>>, <<MediumA, NoValue, MediumC>>,
                 <<EasyA, EasyB, EasyA>>, <<HardA, HardB, HardA>>,
                 <<HardA, HardB, HardA>>, <<EasyA, EasyB, EasyA>>,
                 <<HardA, HardB, HardA>>, <<EasyA, EasyB, EasyA>>>>

\* categories that each hold 3 clues of a single tier (3 easy ones, a medium
\* one with a clue without value, 4 hard ones, an expert one), an anagram
\* category, and two final clues, one of them of an anagram category
ArchiveUneven ==
  Flatten([k \in 1..10 |->
             MkCategory(UnevenNames[k], "u" \o ToString(k), "", UnevenSpecs[k])])
  \o <<MkFinal("Explorers", "uf1"), MkFinal("Anagrammed Names", "uf2")>>

\* the clues of a category in which the first record occurs twice
MkRepeated(category, tag) ==
  LET easy == MkCategory(category, tag, "", <<EasyA, EasyB>>)
      hard == MkCategory(category, tag \o "h", "", <<HardA, HardB>>)
  IN  <<easy[1], easy[1], easy[2], hard[1], hard[1], hard[2]>>

\* 8 categories of 3 easy and 3 hard records, two records of each tier with
\* the same clue text and answer (an archive after clean-archive), one final
ArchiveRepeats ==
  Flatten([k \in 1..8 |-> MkRepeated(GridNames[k], "r" \o ToString(k))])
  \o <<MkFinal("Explorers", "rf1")>>

Archives == {<<>>, ArchiveTiny, ArchiveSmall, ArchiveFewCategories,
             ArchiveGrid96, ArchiveGrid, ArchiveThemed, ArchiveUneven,
             ArchiveRepeats}

\* the dates a run may be asked for on the command line
TargetDates == {NoDate, Today}

(***************************************************************************)
(* State.                                                                  *)
(***************************************************************************)
VARIABLES
  archiveFile,   \* data/archive-backup.json: the sequence of clue records
  usedFile,      \* data/used-questions.json: the set of question ids
  games,         \* data/games: date |-> Game record of game-<date>.json
  llmEnv,        \* the classifier configuration and behaviour (LLMModes)
  runs,          \* per process: the locals of its generateGame invocation
  started,       \* number of invocations started so far
  history,       \* the Games of the runs that returned from generateGame
                 \* after both writes, in order (kept for the properties)
  picked         \* for each of these runs, the archive records it selected,
                 \* as the identifiers of their archive texts

vars == <<archiveFile, usedFile, games, llmEnv, runs, started, history, picked>>

Procs == {"p1", "p2"}

NoGame == [id |-> GameId(NoDate), date |-> NoDate, rounds |-> <<>>,
           finalTrivia |-> [category |-> "", question |-> "", answer |-> ""]]

\* the locals of a process that has not been invoked; usedAtStart, gamesAtStart,
\* gamesAtLoad and writes record, for the properties, the files at the
\* invocation, the Game files at loadData and the files the invocation wrote
IdleRun ==
  [pc |-> "idle", targetDate |-> NoDate, date |-> NoDate, gameId |-> GameId(NoDate),
   rng |-> 0, archive |-> <<>>, usedQuestions |-> {},
   availableQuestions |-> <<>>, availableFinals |-> <<>>,
   categoryKeys |-> <<>>, usedCategories |-> {}, selectedQuestions |-> <<>>,
   round |-> 0, finalQuestion |-> <<>>, newUsedQuestions |-> {},
   game |-> NoGame, result |-> <<>>, error |-> "", exitCode |-> -1,
   usedAtStart |-> {}, gamesAtStart |-> <<>>, gamesAtLoad |-> <<>>,
   writes |-> <<>>]

Init ==
  /\ archiveFile \in Archives
  /\ llmEnv \in LLMModes
  /\ usedFile = {}
  /\ games = <<>>
  /\ runs = [p \in Procs |-> IdleRun]
  /\ started = 0
  /\ history = <<>>
  /\ picked = <<>>

\* mutation: the check for an existing game file is lost
ExistsNever(date) == FALSE

Exists(date) == date \in DOMAIN games

\* mutation: the catch block of main prints the error and does not exit
ThrowExitZero(p, message) ==
  runs' = [runs EXCEPT ![p].pc = "failed", ![p].error = message, ![p].exitCode = 0]

\* the process ends with an uncaught error: main prints it and exits with 1
Throw(p, message) ==
  runs' = [runs EXCEPT ![p].pc = "failed", ![p].error = message, ![p].exitCode = 1]

(***************************************************************************)
(* generateGame, lines 483-505: the command is invoked, the date chosen.   *)
(***************************************************************************)
Start(p, targetDate, seed, clock) ==
  /\ runs[p].pc \in {"idle", "done", "failed"}
  /\ started < MaxRuns
  /\ started' = started + 1
  /\ LET date == IF targetDate = NoDate
                   THEN findNextAvailableDate(DOMAIN games, clock)
                   ELSE targetDate
         fresh == [IdleRun EXCEPT !.targetDate = targetDate, !.date = date,
                                  !.gameId = GameId(date), !.rng = SeedState(seed),
                                  !.usedAtStart = usedFile, !.gamesAtStart = games]
     IN  IF targetDate # NoDate /\ Exists(date)
           THEN runs' = [runs EXCEPT ![p] =
                  [fresh EXCEPT !.pc = "done", !.result = <<GameId(date)>>,
                                !.exitCode = 0]]
           ELSE runs' = [runs EXCEPT ![p] = [fresh EXCEPT !.pc = "load"]]
  /\ UNCHANGED <<archiveFile, usedFile, games, llmEnv, history, picked>>

(***************************************************************************)
(* loadData and the empty-archive check, lines 507-511.                    *)
(***************************************************************************)
Load(p) ==
  /\ runs[p].pc = "load"
  /\ IF Len(archiveFile) = 0
       THEN Throw(p, "Archive is empty. Please run the scraper first.")
       ELSE runs' = [runs EXCEPT ![p].pc = "filter",
                                 ![p].archive = archiveFile,
                                 ![p].usedQuestions = usedFile,
                                 ![p].gamesAtLoad = games]
  /\ UNCHANGED <<archiveFile, usedFile, games, llmEnv, started, history, picked>>

(***************************************************************************)
(* selectQuestions, lines 183-270: both filtering loops and the two        *)
(* size checks.                                                            *)
(***************************************************************************)
Unused(archive, usedQuestions, final) ==
  SelectSeq(archive,
            LAMBDA q : /\ QuestionId(q) \notin usedQuestions
                       /\ (q.round = FINAL_JEOPARDY) = final)

\* the first await of the loops (line 200 or 240) never resumes
Blocked(p) ==
  /\ llmEnv = "hang"
  /\ \E i \in 1..Len(runs[p].archive) :
       QuestionId(runs[p].archive[i]) \notin runs[p].usedQuestions

FilterQuestions(p) ==
  /\ runs[p].pc = "filter"
  /\ ~Blocked(p)
  /\ LET r == runs[p]
         questions == FilterLoop(Unused(r.archive, r.usedQuestions, FALSE), llmEnv)
         finals == FilterLoop(Unused(r.archive, r.usedQuestions, TRUE), llmEnv)
     IN  IF questions.threw \/ finals.threw
           THEN Throw(p, "Cannot read properties of null (reading 'shouldDisqualify')")
         ELSE IF Len(questions.list) < minAvailable
           THEN Throw(p, "Not enough available questions. Need 24, have "
                         \o ToString(Len(questions.list)))
         ELSE IF Len(finals.list) < minFinals
           THEN Throw(p, "Not enough available Final Jeopardy questions")
         ELSE runs' = [runs EXCEPT ![p].pc = "group",
                                   ![p].availableQuestions = questions.list,
                                   ![p].availableFinals = finals.list]
  /\ UNCHANGED <<archiveFile, usedFile, games, llmEnv, started, history, picked>>

(***************************************************************************)
(* selectQuestions, lines 272-306: difficulty, grouping, category shuffle. *)
(***************************************************************************)
GroupAndShuffle(p) ==
  /\ runs[p].pc = "group"
  /\ LET r == runs[p]
         questionsWithDifficulty ==
           [i \in 1..Len(r.availableQuestions) |-> WithDifficulty(r.availableQuestions[i])]
         shuffled == Shuffle(CategoryKeys(questionsWithDifficulty), r.rng)
     IN  runs' = [runs EXCEPT ![p].pc = "round",
                              ![p].availableQuestions = questionsWithDifficulty,
                              ![p].categoryKeys = shuffled.seq,
                              ![p].rng = shuffled.rng,
                              ![p].round = 0]
  /\ UNCHANGED <<archiveFile, usedFile, games, llmEnv, started, history, picked>>

(***************************************************************************)
(* selectQuestions, lines 314-434: one iteration of the round loop.        *)
(***************************************************************************)
\* mutation: a round without a category is left out and the loop goes on
SelectRoundLocalsSkip(p) ==
  LET r == runs[p]
      targetDifficulty == TargetDifficulty(r.round)
      selectedCategory ==
        SelectCategory(r.availableQuestions, r.categoryKeys, r.usedCategories,
                       targetDifficulty, r.selectedQuestions)
      shuffled ==
        Shuffle(IF selectedCategory = <<>> THEN <<>>
                ELSE QuestionsToChooseFrom(r.availableQuestions,
                       selectedCategory[1], targetDifficulty,
                       r.selectedQuestions), r.rng)
  IN  runs' = [runs EXCEPT
        ![p].usedCategories = @ \cup Range(selectedCategory),
        ![p].selectedQuestions =
           @ \o SubSeq(shuffled.seq, 1, Min(questionsPerRound, Len(shuffled.seq))),
        ![p].rng = shuffled.rng,
        ![p].round = @ + 1,
        ![p].pc = IF r.round + 1 < numRounds THEN "round" ELSE "final"]

SelectRoundLocals(p) ==
  LET r == runs[p]
      targetDifficulty == TargetDifficulty(r.round)
      selectedCategory ==
        SelectCategory(r.availableQuestions, r.categoryKeys, r.usedCategories,
                       targetDifficulty, r.selectedQuestions)
  IN  IF selectedCategory = <<>>
        THEN Throw(p, "Could not find a category with enough questions for round "
                      \o ToString(r.round + 1))
        ELSE LET shuffled ==
                   Shuffle(QuestionsToChooseFrom(r.availableQuestions,
                             selectedCategory[1], targetDifficulty,
                             r.selectedQuestions), r.rng)
                 selectedFromCategory ==
                   SubSeq(shuffled.seq, 1, Min(questionsPerRound, Len(shuffled.seq)))
             IN  IF Len(selectedFromCategory) < questionsPerRound
                   THEN Throw(p, "Category \"" \o selectedCategory[1]
                                 \o "\" does not have enough questions for round "
                                 \o ToString(r.round + 1))
                   ELSE runs' = [runs EXCEPT
                          ![p].usedCategories = @ \cup {selectedCategory[1]},
                          ![p].selectedQuestions = @ \o selectedFromCategory,
                          ![p].rng = shuffled.rng,
                          ![p].round = @ + 1,
                          ![p].pc = IF r.round + 1 < numRounds
                                      THEN "round" ELSE "final"]

\* mutation: the ledger file is extended as each round is selected
SelectRoundEager(p) ==
  /\ runs[p].pc = "round"
  /\ SelectRoundLocals(p)
  /\ usedFile' = usedFile \cup { QuestionId(runs'[p].selectedQuestions[i]) :
                                   i \in 1..Len(runs'[p].selectedQuestions) }
  /\ UNCHANGED <<archiveFile, games, llmEnv, started, history, picked>>

SelectRound(p) ==
  /\ runs[p].pc = "round"
  /\ SelectRoundLocals(p)
  /\ UNCHANGED <<archiveFile, usedFile, games, llmEnv, started, history, picked>>

(***************************************************************************)
(* selectQuestions, lines 436-452: the final question, the new ledger.     *)
(***************************************************************************)
SelectFinal(p) ==
  /\ runs[p].pc = "final"
  /\ LET r == runs[p]
         finalQuestion ==
           r.availableFinals[RandomIndex(r.rng, Len(r.availableFinals)) + 1]
     IN  runs' = [runs EXCEPT
           ![p].pc = "build",
           ![p].rng = NextRandom(@),
           ![p].finalQuestion = <<finalQuestion>>,
           ![p].newUsedQuestions =
              r.usedQuestions
                \cup { QuestionId(r.selectedQuestions[i]) :
                         i \in 1..Len(r.selectedQuestions) }
                \cup { QuestionId(finalQuestion) }]
  /\ UNCHANGED <<archiveFile, usedFile, games, llmEnv, started, history, picked>>

(***************************************************************************)
(* generateGame, lines 520-552: the Game object.                           *)
(***************************************************************************)
AssembleGame(p) ==
  /\ runs[p].pc = "build"
  /\ LET r == runs[p]
     IN  runs' = [runs EXCEPT
           ![p].pc = "writeGame",
           ![p].game = BuildGame(r.gameId, r.date, r.selectedQuestions,
                                 r.finalQuestion[1])]
  /\ UNCHANGED <<archiveFile, usedFile, games, llmEnv, started, history, picked>>

(***************************************************************************)
(* generateGame, line 555: fs.writeFileSync(gameFile, ...).                *)
(***************************************************************************)
WriteGame(p) ==
  /\ runs[p].pc = "writeGame"
  /\ LET r == runs[p]
     IN  games' = [d \in DOMAIN games \cup {r.date} |->
                     IF d = r.date THEN r.game ELSE games[d]]
  /\ runs' = [runs EXCEPT ![p].pc = "writeLedger",
                          ![p].writes = Append(@, "game")]
  /\ UNCHANGED <<archiveFile, usedFile, llmEnv, started, history, picked>>

(***************************************************************************)
(* generateGame, lines 559-562: fs.writeFileSync(USED_QUESTIONS_FILE, ...) *)
(* and the return to main, which prints the identifier and exits with 0.   *)
(***************************************************************************)
\* the archive text of a filtered clue, and the archive records of a selection
ArchiveId(q) ==
  (IF q.originalClue # <<>> THEN q.originalClue[1] ELSE q.clue) \o "|" \o q.answer

PickedRecords(r) ==
  { ArchiveId(r.selectedQuestions[i]) : i \in 1..Len(r.selectedQuestions) }
    \cup { ArchiveId(r.finalQuestion[1]) }

\* mutation: the ledger file receives the identifiers of this game only
WriteLedgerFresh(p) ==
  /\ runs[p].pc = "writeLedger"
  /\ usedFile' = runs[p].newUsedQuestions \ runs[p].usedQuestions
  /\ runs' = [runs EXCEPT ![p].pc = "done",
                          ![p].result = <<runs[p].gameId>>,
                          ![p].exitCode = 0,
                          ![p].writes = Append(@, "ledger")]
  /\ history' = Append(history, runs[p].game)
  /\ picked' = Append(picked, PickedRecords(runs[p]))
  /\ UNCHANGED <<archiveFile, games, llmEnv, started>>

WriteLedger(p) ==
  /\ runs[p].pc = "writeLedger"
  /\ usedFile' = runs[p].newUsedQuestions
  /\ runs' = [runs EXCEPT ![p].pc = "done",
                          ![p].result = <<runs[p].gameId>>,
                          ![p].exitCode = 0,
                          ![p].writes = Append(@, "ledger")]
  /\ history' = Append(history, runs[p].game)
  /\ picked' = Append(picked, PickedRecords(runs[p]))
  /\ UNCHANGED <<archiveFile, games, llmEnv, started>>

(***************************************************************************)
(* fs.writeFileSync throws (disk full, permissions): nothing is written by *)
(* the failing call, the error reaches main.                               *)
(***************************************************************************)
WriteError == "ENOSPC: no space left on device, write"

WriteFails(p) ==
  /\ runs[p].pc \in {"writeGame", "writeLedger"}
  /\ Throw(p, WriteError)
  /\ UNCHANGED <<archiveFile, usedFile, games, llmEnv, started, history, picked>>

Step(p) ==
  \/ \E targetDate \in TargetDates, seed \in 0..(NumSeeds - 1), clock \in Clocks :
       Start(p, targetDate, seed, clock)
  \/ Load(p)
  \/ FilterQuestions(p)
  \/ GroupAndShuffle(p)
  \/ SelectRound(p)
  \/ SelectFinal(p)
  \/ AssembleGame(p)
  \/ WriteGame(p)
  \/ WriteLedger(p)
  \/ WriteFails(p)

\* the command is run again only after the previous run has ended
Next == Step("p1")

Spec == Init /\ [][Next]_vars

(***************************************************************************)
(* The command run when data/games holds a Game for each of the ScanDays   *)
(* dates from today on, written by earlier runs from clues that are no     *)
(* longer in the archive.                                                  *)
(***************************************************************************)
PriorQuestions(d) ==
  Flatten([k \in 1..8 |->
             MkCategory(GridNames[k], "d" \o ToString(d) \o "c" \o ToString(k), "",
                        <<EasyA, EasyB, EasyA>>)])

PriorFinal(d) == MkFinal("Explorers", "d" \o ToString(d) \o "f")

PriorGame(d) == BuildGame(GameId(d), d, PriorQuestions(d), PriorFinal(d))

FullCalendar == [d \in Today..(Today + ScanDays - 1) |-> PriorGame(d)]

InitCalendar ==
  /\ archiveFile \in {ArchiveUneven, ArchiveFewCategories}
  /\ llmEnv \in {"none", "allow"}
  /\ usedFile = UNION { { QuestionId(PriorQuestions(d)[i]) : i \in 1..24 }
                          \cup { QuestionId(PriorFinal(d)) } :
                        d \in DOMAIN FullCalendar }
  /\ games = FullCalendar
  /\ runs = [p \in Procs |-> IdleRun]
  /\ started = 0
  /\ history = <<>>
  /\ picked = <<>>

SpecCalendar == InitCalendar /\ [][Next]_vars

(***************************************************************************)
(* Two invocations of the command at the same time: the steps of the two   *)
(* processes interleave; the script takes no lock on the files.            *)
(***************************************************************************)
InitConcurrent ==
  /\ archiveFile \in {ArchiveUneven, ArchiveRepeats}
  /\ llmEnv = "none"
  /\ usedFile = {}
  /\ games = <<>>
  /\ runs = [p \in Procs |-> IdleRun]
  /\ started = 0
  /\ history = <<>>
  /\ picked = <<>>

NextConcurrent == \E p \in Procs : Step(p)

SpecConcurrent == InitConcurrent /\ [][NextConcurrent]_vars

(***************************************************************************)
(* Properties.                                                             *)
(***************************************************************************)
\* the (clue, answer) pairs of a Game: its round questions and its final
GamePairs(g) ==
  { <<g.rounds[i].questions[k].clue, g.rounds[i].questions[k].answer>> :
      i \in 1..Len(g.rounds), k \in 1..3 }
  \cup { <<g.finalTrivia.question, g.finalTrivia.answer>> }

\* the ledger entry of a pair
PairId(pair) == pair[1] \o "|" \o pair[2]

\* the run of p went past the date allocation and loaded a non-empty archive,
\* and its filtering step is over
PastFilter(p) == runs[p].archive # <<>> /\ runs[p].pc # "filter"

\* a clue the eligibility policy keeps: the classifier answered with an
\* object that does not disqualify it, or did not answer properly (fail-open)
Kept(q) ==
  LET reply == IF llmEnv = "none" THEN LocalHeuristic(q) ELSE ClassifierReply(q, llmEnv)
  IN  ~(reply.kind = "object" /\ reply.shouldDisqualify)

\* the eligible, not-yet-used clues a run starts from
Eligible(r, final) ==
  SelectSeq(r.archive,
            LAMBDA q : /\ (q.round = FINAL_JEOPARDY) = final
                       /\ QuestionId(q) \notin r.usedQuestions
                       /\ Kept(q))

\* C1: every persisted Game has exactly 8 rounds, numbered 1..8 in order,
\* and every round has exactly 3 questions
C1_EightRoundsOfThree ==
  \A d \in DOMAIN games :
    /\ Len(games[d].rounds) = 8
    /\ \A i \in 1..8 : /\ games[d].rounds[i].roundNumber = i
                       /\ Len(games[d].rounds[i].questions) = 3

C1_Witness ==
  \E d \in DOMAIN games : games[d].date = d /\ Len(games[d].rounds) = 8

\* C2: in every persisted Game the questions of a round share one category
\* and no category is the category of two rounds
C2_OneCategoryPerRound ==
  \A d \in DOMAIN games :
    LET rounds == games[d].rounds
    IN  /\ \A i \in 1..Len(rounds) :
             \A k \in 1..Len(rounds[i].questions) :
               rounds[i].questions[k].category = rounds[i].questions[1].category
        /\ \A i, j \in 1..Len(rounds) :
             i # j =>
               \A k \in 1..Len(rounds[i].questions), l \in 1..Len(rounds[j].questions) :
                 rounds[i].questions[k].category # rounds[j].questions[l].category

C2_Witness ==
  \E d \in DOMAIN games :
    /\ Len(games[d].rounds) = 8
    /\ Cardinality({ games[d].rounds[i].questions[1].category : i \in 1..8 }) = 8

\* C3: after a successful generation every (clue, answer) pair of the Game
\* was absent from the ledger the run loaded and is in the persisted ledger
C3_LedgerConsistency ==
  \A p \in Procs :
    (runs[p].pc = "done" /\ runs[p].writes # <<>>) =>
      \A pair \in GamePairs(runs[p].game) :
        /\ PairId(pair) \notin runs[p].usedQuestions
        /\ PairId(pair) \in usedFile

\* C4: the Games of successful generations for distinct dates share no
\* (clue, answer) pair
C4_NoRepeatAcrossGames ==
  \A i, j \in 1..Len(history) :
    history[i].date # history[j].date =>
      GamePairs(history[i]) \cap GamePairs(history[j]) = {}

\* C5: a run asked for a date that already has a Game returns game-<date>,
\* writes nothing and leaves the Game records and the ledger as they were
RequestedExisting(p) ==
  /\ runs[p].pc # "idle"
  /\ runs[p].targetDate # NoDate
  /\ runs[p].targetDate \in DOMAIN runs[p].gamesAtStart

C5_ExistingDateIsNoOp ==
  \A p \in Procs :
    RequestedExisting(p) =>
      /\ runs[p].pc = "done"
      /\ runs[p].result = <<GameId(runs[p].targetDate)>>
      /\ runs[p].exitCode = 0
      /\ runs[p].writes = <<>>
      /\ games = runs[p].gamesAtStart
      /\ usedFile = runs[p].usedAtStart

C5_Witness ==
  \E p \in Procs :
    /\ RequestedExisting(p)
    /\ runs[p].pc = "done"
    /\ runs[p].gamesAtStart[runs[p].targetDate].id = runs[p].result[1]

\* C6: when fewer than 24 eligible, not-yet-used non-final clues remain, the
\* run fails with "not enough available questions" before any round is
\* assembled
C6_NotEnoughQuestions ==
  \A p \in Procs :
    (PastFilter(p) /\ Len(Eligible(runs[p], FALSE)) < 24) =>
      /\ runs[p].pc = "failed"
      /\ Includes(ToLowerCase(runs[p].error), "not enough available questions")
      /\ runs[p].selectedQuestions = <<>>

\* C7: when no eligible, not-yet-used final clue remains, the run ends in
\* failure and produces no Game, whatever the number of non-final clues
C7_NoFinalFails ==
  \A p \in Procs :
    (PastFilter(p) /\ Eligible(runs[p], TRUE) = <<>>) =>
      /\ runs[p].pc = "failed"
      /\ runs[p].game = NoGame
      /\ games = runs[p].gamesAtStart

C7_Witness ==
  \E p \in Procs :
    /\ PastFilter(p)
    /\ Eligible(runs[p], TRUE) = <<>>
    /\ Len(Eligible(runs[p], FALSE)) >= 24
    /\ runs[p].pc = "failed"

\* C8: a run that fails before the persisting step (empty archive, too few
\* clues, no final clue, no category for a round, an error of the filter)
\* leaves the Game records and the ledger as they were before the run
FailedBeforePersisting(p) ==
  runs[p].pc = "failed" /\ runs[p].error # WriteError

C8_FailureLeavesFiles ==
  \A p \in Procs :
    FailedBeforePersisting(p) =>
      /\ games = runs[p].gamesAtStart
      /\ usedFile = runs[p].usedAtStart

C8_Witness ==
  \E p \in Procs :
    /\ FailedBeforePersisting(p)
    /\ runs[p].selectedQuestions # <<>>
    /\ Includes(runs[p].error, "for round")

\* C9: the Game record and the ledger update are one transaction: a run's
\* Game record is persisted exactly when the ledger holds all its pairs
C9_AtomicPersist ==
  \A p \in Procs :
    runs[p].game # NoGame =>
      ((/\ runs[p].date \in DOMAIN games
        /\ games[runs[p].date] = runs[p].game)
       <=> (\A pair \in GamePairs(runs[p].game) : PairId(pair) \in usedFile))

\* the scenario of C10 on a sequence of clues: 96 clues in 8 categories,
\* each category with 3 easy, 3 medium, 3 hard and 3 expert clues
GridScenario(questions) ==
  /\ Len(questions) = 96
  /\ LET categories == { questions[i].category : i \in 1..Len(questions) }
         tiers == [i \in 1..Len(questions) |->
                     getDifficultyLevel(calculateDifficulty(questions[i]))]
     IN  /\ Cardinality(categories) = 8
         /\ \A c \in categories, t \in {"easy", "medium", "hard", "expert"} :
              Cardinality({ i \in 1..Len(questions) :
                              questions[i].category = c /\ tiers[i] = t }) = 3

DistinctClues(questions) ==
  \A i, j \in 1..Len(questions) : questions[i].clue = questions[j].clue => i = j

GridRun(p) ==
  /\ runs[p].pc \notin {"idle", "load", "filter"}
  /\ runs[p].availableFinals # <<>>
  /\ GridScenario(runs[p].availableQuestions)
  /\ DistinctClues(runs[p].availableQuestions)

AnagramCategory(category) == Includes(ToLowerCase(category), "anagram")

\* C11: without a classifier (local heuristic) no persisted Game holds a clue
\* of a category whose name contains "anagram" in any letter case, neither in
\* a round nor as the final question
C11_NoAnagramCategory ==
  llmEnv = "none" =>
    \A d \in DOMAIN games :
      /\ \A i \in 1..Len(games[d].rounds) :
           \A k \in 1..Len(games[d].rounds[i].questions) :
             ~AnagramCategory(games[d].rounds[i].questions[k].category)
      /\ ~AnagramCategory(games[d].finalTrivia.category)

C11_Witness ==
  /\ llmEnv = "none"
  /\ \E p \in Procs :
       /\ runs[p].pc = "done"
       /\ runs[p].date \in DOMAIN games
       /\ games[runs[p].date] = runs[p].game
       /\ \E i, j \in 1..Len(runs[p].archive) :
            /\ AnagramCategory(runs[p].archive[i].category)
            /\ runs[p].archive[i].round # FINAL_JEOPARDY
            /\ AnagramCategory(runs[p].archive[j].category)
            /\ runs[p].archive[j].round = FINAL_JEOPARDY

\* the clue and answer texts of a sequence of clues
Texts(questions) ==
  [i \in 1..Len(questions) |-> <<questions[i].clue, questions[i].answer>>]

\* C12: when the classifier or rewriter call fails or answers with a
\* malformed response, no clue is dropped, every clue keeps its original text
\* and the run does not fail because of the response
C12_FailOpen ==
  \A p \in Procs :
    (PastFilter(p) /\ llmEnv \in {"down", "null"}) =>
      /\ ~Includes(runs[p].error, "shouldDisqualify")
      /\ runs[p].availableQuestions # <<>> =>
           /\ Texts(runs[p].availableQuestions)
                = Texts(Unused(runs[p].archive, runs[p].usedQuestions, FALSE))
           /\ Texts(runs[p].availableFinals)
                = Texts(Unused(runs[p].archive, runs[p].usedQuestions, TRUE))

\* C13: a run without a requested date, started when one of the 365 dates
\* from today on has no Game, gets the earliest of these free dates
C13_EarliestFreeDate ==
  \A p \in Procs :
    LET free == { d \in Today..(Today + 364) : d \notin DOMAIN runs[p].gamesAtStart }
    IN  (runs[p].pc # "idle" /\ runs[p].targetDate = NoDate /\ free # {}) =>
          /\ runs[p].date \in free
          /\ \A d \in free : runs[p].date <= d

\* C14: the command exits with 0 and prints the game identifier exactly when
\* the run ends in DONE (a Game was persisted or the requested date had one);
\* it exits with a non-zero code and prints the reason when it ends in FAILED
C14_ExitCodes ==
  \A p \in Procs :
    /\ (runs[p].pc = "done") <=> (runs[p].exitCode = 0)
    /\ (runs[p].pc = "done") <=> (runs[p].result # <<>>)
    /\ runs[p].pc = "done" =>
         /\ runs[p].result = <<GameId(runs[p].date)>>
         /\ runs[p].error = ""
         /\ \/ RequestedExisting(p)
            \/ /\ runs[p].date \in DOMAIN games
               /\ games[runs[p].date] = runs[p].game
    /\ (runs[p].pc = "failed") <=> (runs[p].exitCode > 0)
    /\ runs[p].pc = "failed" => runs[p].error # ""

C14_Witness ==
  \E p \in Procs :
    /\ runs[p].pc = "failed"
    /\ runs[p].exitCode = 1
    /\ history # <<>>

\* C15: the score of every clue with a non-negative value lies in the range
\* of the clue's round: [0,20] for Jeopardy, [20,60] for Double Jeopardy,
\* exactly 80 for Final Jeopardy
ScoreInSubRange(q, score) ==
  /\ 0 <= score[1] /\ score[1] <= 100 * score[2]
  /\ q.round = JEOPARDY => score[1] <= 20 * score[2]
  /\ q.round = DOUBLE_JEOPARDY =>
       20 * score[2] <= score[1] /\ score[1] <= 60 * score[2]
  /\ q.round = FINAL_JEOPARDY => score[1] = 80 * score[2]

C15_ScoreInSubRange ==
  \A p \in Procs :
    runs[p].pc \notin {"idle", "load", "filter", "group"} =>
      \A i \in 1..Len(runs[p].availableQuestions) :
        LET q == runs[p].availableQuestions[i]
        IN  q.value >= 0 => ScoreInSubRange(q, q.difficultyScore)

\* C16: the ledger is append-only: after a run, whether it succeeded, failed
\* or did nothing, the persisted ledger holds every entry it held before it
C16_LedgerAppendOnly ==
  \A p \in Procs :
    runs[p].pc \in {"done", "failed"} => runs[p].usedAtStart \subseteq usedFile

C16_Witness ==
  \E p \in Procs :
    /\ runs[p].pc = "done"
    /\ runs[p].writes = <<"game", "ledger">>
    /\ runs[p].usedAtStart # {}
    /\ usedFile # runs[p].usedAtStart

TierRank(tier) ==
  CASE tier = "easy" -> 0 [] tier = "medium" -> 1 [] tier = "hard" -> 2
    [] OTHER -> 3

\* C17: in every persisted Game the difficulty label of round k+1 is never
\* easier than the label of round k
C17_DifficultyNeverDecreases ==
  \A d \in DOMAIN games :
    \A k \in 1..(Len(games[d].rounds) - 1) :
      TierRank(games[d].rounds[k].difficulty)
        <= TierRank(games[d].rounds[k + 1].difficulty)

\* the unused categories that still hold 3 clues, of any tier, in run r
WithThreeLeft(r) ==
  { c \in Range(r.categoryKeys) \ r.usedCategories :
      Len(AllInCategory(r.availableQuestions, c, r.selectedQuestions))
        >= questionsPerRound }

\* C18: a round whose tiers no unused category can fill is given the first
\* unused category with 3 remaining clues of any tier; the run fails on a
\* round only when no unused category has 3 remaining clues at all
C18_RelaxedSearchFills ==
  \A p \in Procs :
    (runs[p].pc = "failed" /\ Includes(runs[p].error, "for round")) =>
      WithThreeLeft(runs[p]) = {}

\* the clues selected for the round with index k (0..7), and before it
RoundOf(r, k) == SubSeq(r.selectedQuestions, 3 * k + 1, 3 * k + 3)
BeforeRound(r, k) == SubSeq(r.selectedQuestions, 1, 3 * k)
RoundsFilled(r) == Len(r.selectedQuestions) \div 3

\* C19: every clue selected for the round with index k has the tier the
\* round targets or the tier directly below it, never a harder one
C19_TierAtMostTarget ==
  \A p \in Procs :
    \A i \in 1..Len(runs[p].selectedQuestions) :
      LET target == TierRank(TargetDifficulty((i - 1) \div 3))
          tier == TierRank(getDifficultyLevel(
                    calculateDifficulty(runs[p].selectedQuestions[i])))
      IN  target - 1 <= tier /\ tier <= target

C19_Witness ==
  \E p \in Procs :
    /\ runs[p].pc = "done"
    /\ Len(runs[p].selectedQuestions) = 24
    /\ \E i, j \in 1..24 :
         /\ runs[p].selectedQuestions[i].difficultyLevel
              # TargetDifficulty((i - 1) \div 3)
         /\ runs[p].selectedQuestions[j].difficultyLevel = "expert"

\* the clues of the round's target tier its category had left when the round
\* with index k was filled
TargetLeft(r, k) ==
  Remaining(r.availableQuestions, RoundOf(r, k)[1].category,
            TargetDifficulty(k), BeforeRound(r, k))

\* C20: when the category chosen for a round has 3 remaining clues of the
\* target tier, the 3 clues of the round are of the target tier; a clue of
\* the fallback tier is taken only when fewer than 3 remain
C20_TargetTierFirst ==
  \A p \in Procs :
    \A k \in 0..(RoundsFilled(runs[p]) - 1) :
      Len(TargetLeft(runs[p], k)) >= questionsPerRound =>
        \A i \in 1..3 :
          RoundOf(runs[p], k)[i].difficultyLevel = TargetDifficulty(k)

C20_Witness ==
  \E p \in Procs :
    /\ runs[p].pc = "done"
    /\ \E k \in 2..3 :
         /\ Len(TargetLeft(runs[p], k)) >= questionsPerRound
         /\ RoundOf(runs[p], k)[1].difficultyLevel = "medium"
    /\ \E k \in 2..3 :
         /\ Len(TargetLeft(runs[p], k)) < questionsPerRound
         /\ RoundOf(runs[p], k)[1].difficultyLevel = "easy"

\* the tier directly below a tier (easy has none)
Below(tier) ==
  CASE tier = "expert" -> "hard" [] tier = "hard" -> "medium" [] OTHER -> "easy"

\* the number of clues of category c that run r has left in the target tier
\* and the tier below it
PoolSize(r, c, target) ==
  Cardinality({ i \in 1..Len(r.availableQuestions) :
                  /\ r.availableQuestions[i].category = c
                  /\ r.availableQuestions[i].difficultyLevel \in {target, Below(target)}
                  /\ \A k \in 1..Len(r.selectedQuestions) :
                       r.selectedQuestions[k].clue # r.availableQuestions[i].clue })

\* C21: the category order is fixed once per run, and the category of each
\* round is the earliest one in that order that is unused and has at least 3
\* remaining clues over the target tier and its fallback tier
C21_EarliestQualifyingCategory ==
  [][\A p \in Procs :
       (/\ runs[p].pc = "round"
        /\ Len(runs'[p].selectedQuestions) > Len(runs[p].selectedQuestions)) =>
         LET r == runs[p]
             target == TargetDifficulty(r.round)
             chosen == runs'[p].selectedQuestions[Len(r.selectedQuestions) + 1].category
             Qualifies(c) == c \notin r.usedCategories /\ PoolSize(r, c, target) >= 3
         IN  /\ runs'[p].categoryKeys = r.categoryKeys
             /\ \E i \in 1..Len(r.categoryKeys) :
                  /\ r.categoryKeys[i] = chosen
                  /\ Qualifies(chosen)
                  /\ \A j \in 1..(i - 1) : ~Qualifies(r.categoryKeys[j])]_vars

C21_Witness ==
  \E p \in Procs :
    /\ runs[p].pc = "done"
    /\ Len(runs[p].selectedQuestions) = 24
    /\ \E k \in 0..6, i \in 1..Len(runs[p].categoryKeys) :
         /\ runs[p].categoryKeys[i] = RoundOf(runs[p], k)[1].category
         /\ \E j \in 1..(i - 1), l \in (k + 1)..7 :
              runs[p].categoryKeys[j] = RoundOf(runs[p], l)[1].category

\* the tier of the arithmetic mean of the scores of three clues
MeanTier(questions) ==
  LET sum == SumSeq([i \in 1..Len(questions) |->
                       calculateDifficulty(
                         [value |-> questions[i].value,
                          round |-> questions[i].round])[1]])
      n == Len(questions) * ScoreDen
  IN  IF sum < 10 * n THEN "easy"
      ELSE IF sum < 30 * n THEN "medium"
      ELSE IF sum < 50 * n THEN "hard"
      ELSE "expert"

\* C22: the label of each round of a Game is the tier of the mean of the
\* scores of its 3 clues, recomputed from value and origin, not the target
C22_LabelIsMeanTier ==
  \A p \in Procs :
    runs[p].game # NoGame =>
      \A i \in 1..8 :
        runs[p].game.rounds[i].difficulty = MeanTier(RoundOf(runs[p], i - 1))

C22_Witness ==
  \E p \in Procs :
    /\ runs[p].pc = "done"
    /\ runs[p].date \in DOMAIN games
    /\ games[runs[p].date] = runs[p].game
    /\ runs[p].game # NoGame
    /\ \E i \in 1..8 :
         runs[p].game.rounds[i].difficulty # TargetDifficulty(i - 1)

\* C23: rounds are filled in order; when no unused category has 3 remaining
\* clues for a round the run fails with an error naming that round, attempts
\* no later round and emits no Game
C23_RoundFailureIsFatal ==
  [][\A p \in Procs :
       (/\ runs[p].pc = "round"
        /\ runs'[p] # runs[p]) =>
         /\ WithThreeLeft(runs[p]) = {} =>
              /\ runs'[p].pc = "failed"
              /\ Includes(runs'[p].error, "for round " \o ToString(runs[p].round + 1))
              /\ runs'[p].exitCode = 1
         /\ runs'[p].pc = "failed" =>
              /\ runs'[p].selectedQuestions = runs[p].selectedQuestions
              /\ Len(runs'[p].selectedQuestions) = 3 * runs[p].round
              /\ runs'[p].game = NoGame
              /\ games' = games /\ usedFile' = usedFile
         /\ runs'[p].pc # "failed" =>
              /\ runs'[p].round = runs[p].round + 1
              /\ Len(runs'[p].selectedQuestions) = 3 * runs'[p].round]_vars

C23_Witness ==
  \E p \in Procs :
    /\ runs[p].pc = "failed"
    /\ Includes(runs[p].error, "Could not find a category")
    /\ Len(runs[p].availableQuestions) >= 24
    /\ runs[p].availableFinals # <<>>
    /\ WithThreeLeft(runs[p]) = {}
    /\ runs[p].round > 0

SameButText(q, a) ==
  /\ q.answer = a.answer /\ q.category = a.category
  /\ q.value = a.value /\ q.round = a.round
  /\ calculateDifficulty(q) = calculateDifficulty(a)
  /\ getDifficultyLevel(calculateDifficulty(q)) = getDifficultyLevel(calculateDifficulty(a))

Rewritten(questions) ==
  { i \in 1..Len(questions) : questions[i].originalClue # <<>> }

C25_RewriteKeepsFields ==
  \A p \in Procs :
    runs[p].pc \notin {"idle", "load", "filter"} =>
      LET from == [final \in BOOLEAN |->
                     Unused(runs[p].archive, runs[p].usedQuestions, final)]
          to == [final \in BOOLEAN |->
                   IF final THEN runs[p].availableFinals
                   ELSE runs[p].availableQuestions]
      IN  \A final \in BOOLEAN :
            \A i \in Rewritten(to[final]) :
              \E k \in 1..Len(from[final]) :
                /\ from[final][k].clue = to[final][i].originalClue[1]
                /\ from[final][k].answer = to[final][i].answer
                /\ SameButText(to[final][i], from[final][k])

C25_Witness ==
  \E p \in Procs :
    /\ runs[p].pc = "done"
    /\ runs[p].writes # <<>>
    /\ Rewritten(runs[p].availableQuestions) # {}
    /\ Rewritten(runs[p].availableFinals) # {}

\* the run of p is at a step it can take: it is not waiting for an answer
\* that never comes
CanStep(p) ==
  \/ runs[p].pc \in {"load", "group", "round", "final", "build", "writeGame",
                     "writeLedger"}
  \/ /\ runs[p].pc = "filter"
     /\ ~(/\ llmEnv = "hang"
          /\ \E final \in BOOLEAN :
               Unused(runs[p].archive, runs[p].usedQuestions, final) # <<>>)

C27_NoRecordReselected ==
  \A i, j \in 1..Len(picked) :
    i # j => picked[i] \cap picked[j] = {}

\* both runs loaded the files before either wrote one, and both have ended
\* after their two writes
LoadedBeforeWrites(p, q) ==
  /\ runs[p].pc = "done" /\ runs[p].writes = <<"game", "ledger">>
  /\ runs[q].pc = "done" /\ runs[q].writes = <<"game", "ledger">>
  /\ runs[p].gamesAtLoad = runs[p].gamesAtStart
  /\ runs[q].gamesAtLoad = runs[p].gamesAtStart
  /\ runs[p].usedQuestions = runs[p].usedAtStart
  /\ runs[q].usedQuestions = runs[p].usedAtStart

\* C28: when two runs interleave so that both load the ledger before either
\* persists, then after both have completed the ledger holds the pairs of
\* every persisted Game and the two Games share no pair
C28_ConcurrentRunsConsistent ==
  \A p, q \in Procs :
    (p # q /\ LoadedBeforeWrites(p, q)) =>
      /\ \A d \in DOMAIN games :
           \A pair \in GamePairs(games[d]) : PairId(pair) \in usedFile
      /\ runs[p].date # runs[q].date =>
           GamePairs(runs[p].game) \cap GamePairs(runs[q].game) = {}

\* C29: the 24 round questions and the final question of a persisted Game
\* are 25 different (clue, answer) pairs
C29_NoPairTwiceInGame ==
  \A d \in DOMAIN games :
    Cardinality(GamePairs(games[d])) = 25

\* C30: every question of a persisted Game, the final one included, has a
\* non-empty clue text and a non-empty answer
C30_NoEmptyText ==
  \A d \in DOMAIN games :
    \A pair \in GamePairs(games[d]) : pair[1] # "" /\ pair[2] # ""

====
